---- MODULE Spec2Model ----
(***************************************************************************)
(* A model of point_rect/point_rect.py: the classes Point and Rect.        *)
(*                                                                         *)
(* Python objects live on a heap and are held by reference: `points` and   *)
(* `rects` are the heaps of Point and Rect objects, an object's identity   *)
(* is its index.  A Rect holds the identities of its two corner Points.    *)
(* `ret` is the outcome of the last call: the value returned or the        *)
(* exception raised.  `gen` is the generator object made by Rect.__iter__  *)
(* and `yielded` the list of values its consumer has received so far.      *)
(*                                                                         *)
(* A Python number is an int or a float.  The model keeps the type and     *)
(* the value on a grid of step 1/Den: [k |-> n, f |-> isFloat] stands for  *)
(* n/Den.  On that grid and within the model's magnitudes, float           *)
(* addition, subtraction, comparison and multiplication by an int are      *)
(* exact, so they are modelled exactly.                                    *)
(***************************************************************************)
EXTENDS Integers, Sequences, FiniteSets, TLC

VARIABLES points, rects, ret, gen, yielded

vars == <<points, rects, ret, gen, yielded>>

(***************************************************************************)
(* Bounds of the model.                                                    *)
(***************************************************************************)
\* Resolution of the float grid: floats are multiples of 1/Den.
Den == 2
\* Coordinates drawn for the inputs lie in -MaxCoord .. MaxCoord.
MaxCoord == 1
\* Corner coordinates drawn for the containment and overlap queries: 0 .. MaxQuery.
MaxQuery == 2
\* Heap sizes of the object-graph specification.
MaxPoints == 3
\* In the object-graph specification add is taken while the coordinates stay
\* in -MaxMove .. MaxMove.
MaxMove == 1
MaxRects == 2

(***************************************************************************)
(* Python numbers.                                                         *)
(***************************************************************************)
Num(k, f) == [k |-> k, f |-> f]

\* The int n.
PyInt(n) == Num(n * Den, FALSE)

\* The float k/Den.
PyFloat(k) == Num(k, TRUE)

IsIntValued(a) == a.k % Den = 0

\* What int() would be were it to round down.
intFloor(a) == Num((a.k \div Den) * Den, FALSE)

\* int(a): truncation toward zero, result of type int.
int(a) == Num((IF a.k < 0 THEN -((-a.k) \div Den) ELSE a.k \div Den) * Den, FALSE)

\* float(a): same value, type float.
float(a) == Num(a.k, TRUE)

\* a + b, a - b: the result is a float as soon as one operand is.
NumAdd(a, b) == Num(a.k + b.k, a.f \/ b.f)

NumSub(a, b) == Num(a.k - b.k, a.f \/ b.f)

\* a * b, exact on the grid when one operand is integer valued.
NumMul(a, b) == Num((a.k * b.k) \div Den, a.f \/ b.f)

\* a == b, a <= b, a < b, a > b: numeric comparison across int and float.
NumEq(a, b) == a.k = b.k

NumLe(a, b) == a.k <= b.k

NumLt(a, b) == a.k < b.k

NumGt(a, b) == a.k > b.k

(***************************************************************************)
(* class Point: the value-returning methods, on Point values [x, y].       *)
(***************************************************************************)
\* Point(x, y)
Point(x, y) == [x |-> x, y |-> y]

\* The default arguments of Point.__init__: x=0.0, y=0.0.
PointDefault == Point(PyFloat(0), PyFloat(0))

Point__add__(self, p) == Point(NumAdd(self.x, p.x), NumAdd(self.y, p.y))

Point__sub__(self, p) == Point(NumSub(self.x, p.x), NumSub(self.y, p.y))

Point__mul__(self, n) == Point(NumMul(self.x, n), NumMul(self.y, n))

Point__eq__(self, other) == NumEq(self.x, other.x) /\ NumEq(self.y, other.y)

clone(self) == Point(self.x, self.y)

(***************************************************************************)
(* The heap.                                                               *)
(***************************************************************************)
PointIds == DOMAIN points

RectIds == DOMAIN rects

\* The two Point objects built once, when `def __init__(self, p1=Point(),
\* p2=Point())` is executed at class definition: every call that omits an
\* argument receives the same object.
DefaultP1 == 1

DefaultP2 == 2

\* An omitted argument of Rect.__init__.
NoArg == 0

Returned(op, args, val) == [op |-> op, args |-> args, exc |-> "none", val |-> val]

Raised(op, args, exc) == [op |-> op, args |-> args, exc |-> exc, val |-> 0]

NoGen == [state |-> "none", r |-> 0, y |-> 0, ystop |-> 0, x |-> 0, xstop |-> 0]

\* The interpreter state once the module is imported: the two default
\* Points exist, no Rect does.
Init ==
    /\ points = <<PointDefault, PointDefault>>
    /\ rects = <<>>
    /\ ret = Returned("import", <<>>, 0)
    /\ gen = NoGen
    /\ yielded = <<>>

InRange(a) == a.k >= -(MaxMove * Den) /\ a.k <= MaxMove * Den

\* Coordinates (x, y) a caller passes to Point(x, y) and to set: an int and a
\* float that is not integer valued.
ArgPairs == {<<PyInt(1), PyFloat(1)>>}

\* Displacements (dx, dy) a caller passes to add.
DeltaPairs == {<<PyInt(1), PyInt(0)>>}

(***************************************************************************)
(* Point: construction and the mutating methods, on heap objects.          *)
(***************************************************************************)
\* p = Point(x, y) / Point()
Point__init__(x, y) ==
    /\ Len(points) < MaxPoints
    /\ points' = Append(points, Point(x, y))
    /\ ret' = Returned("Point", <<x, y>>, Len(points) + 1)
    /\ UNCHANGED <<rects, gen, yielded>>

integerize(p) ==
    /\ points' = [points EXCEPT ![p] = Point(int(points[p].x), int(points[p].y))]
    /\ ret' = Returned("integerize", <<p>>, 0)
    /\ UNCHANGED <<rects, gen, yielded>>

floatize(p) ==
    /\ points' = [points EXCEPT ![p] = Point(float(points[p].x), float(points[p].y))]
    /\ ret' = Returned("floatize", <<p>>, 0)
    /\ UNCHANGED <<rects, gen, yielded>>

set(p, x, y) ==
    /\ points' = [points EXCEPT ![p] = Point(x, y)]
    /\ ret' = Returned("set", <<p, x, y>>, 0)
    /\ UNCHANGED <<rects, gen, yielded>>

\* The second definition of `add` (dx, dy) replaces the first (p).
add(p, dx, dy) ==
    /\ InRange(NumAdd(points[p].x, dx))
    /\ InRange(NumAdd(points[p].y, dy))
    /\ points' = [points EXCEPT ![p] =
                    Point(NumAdd(points[p].x, dx), NumAdd(points[p].y, dy))]
    /\ ret' = Returned("add", <<p, dx, dy>>, 0)
    /\ UNCHANGED <<rects, gen, yielded>>

(***************************************************************************)
(* class Rect.                                                             *)
(***************************************************************************)
\* The object an argument of Rect.__init__ is bound to.
BoundArg(a, default) == IF a = NoArg THEN default ELSE a

\* self.min = p1; self.max = p2: the Rect holds the objects themselves.
RectOf(p1, p2) == [min |-> p1, max |-> p2]

\* r = Rect(), Rect(p1), Rect(p1, p2), Rect(p2=p2): __init__ calls set_points.
Rect__init__(a1, a2) ==
    /\ Len(rects) < MaxRects
    /\ rects' = Append(rects, RectOf(BoundArg(a1, DefaultP1), BoundArg(a2, DefaultP2)))
    /\ ret' = Returned("Rect", <<a1, a2>>, Len(rects) + 1)
    /\ UNCHANGED <<points, gen, yielded>>

set_points(r, p1, p2) ==
    /\ rects' = [rects EXCEPT ![r] = RectOf(p1, p2)]
    /\ ret' = Returned("set_points", <<r, p1, p2>>, 0)
    /\ UNCHANGED <<points, gen, yielded>>

\* The attributes an instance of Rect has: those set_points assigns and the
\* methods of the class.  No `left`, `top`, `right` or `bottom` is defined.
RectAttrs == {"min", "max", "set_points", "contains", "overlaps",
              "expanded_by", "shift_by"}

\* The attributes __str__ and __repr__ read, in order.
RectSides == <<"left", "top", "right", "bottom">>

\* str(r): "<Rect (%s,%s)-(%s,%s)>" % (self.left, self.top, self.right, self.bottom).
\* Reading an attribute the object lacks raises AttributeError; the first one
\* read is self.left.
Rect__str__(r) ==
    /\ RectSides[1] \notin RectAttrs
    /\ ret' = Raised("str", <<r>>, "AttributeError")
    /\ UNCHANGED <<points, rects, gen, yielded>>

\* repr(r): "%s(%r, %r)" % (name, Point(self.left, self.top), Point(self.right, self.bottom))
Rect__repr__(r) ==
    /\ RectSides[1] \notin RectAttrs
    /\ ret' = Raised("repr", <<r>>, "AttributeError")
    /\ UNCHANGED <<points, rects, gen, yielded>>

(***************************************************************************)
(* The object graph: construction, aliasing and in-place mutation.         *)
(***************************************************************************)
\* The Points a caller can name: those it built, and the corners r.min and
\* r.max of the Rects it built.  The default Points are reached only through
\* a Rect that holds them.
Held == {p \in PointIds : p \notin {DefaultP1, DefaultP2}}
            \cup {rects[r].min : r \in RectIds} \cup {rects[r].max : r \in RectIds}

\* Point(x, y), and Point() with the defaults x=0.0, y=0.0.
NewPoint ==
    \E a \in ArgPairs \cup {<<PointDefault.x, PointDefault.y>>} : Point__init__(a[1], a[2])

NewRect == \E a1 \in Held \cup {NoArg}, a2 \in Held \cup {NoArg} : Rect__init__(a1, a2)

SetPoints == \E r \in RectIds, p1 \in Held, p2 \in Held : set_points(r, p1, p2)

Integerize == \E p \in Held : integerize(p)

Floatize == \E p \in Held : floatize(p)

Set == \E p \in Held, a \in ArgPairs : set(p, a[1], a[2])

Add == \E p \in Held, d \in DeltaPairs : add(p, d[1], d[2])

Str == \E r \in RectIds : Rect__str__(r)

Repr == \E r \in RectIds : Rect__repr__(r)

Next ==
    \/ NewPoint
    \/ NewRect
    \/ SetPoints
    \/ Integerize
    \/ Floatize
    \/ Set
    \/ Add
    \/ Str
    \/ Repr

Spec == Init /\ [][Next]_vars

(***************************************************************************)
(* C5.  A Rect created without arguments has both corners equal to (0,0),  *)
(* whatever was done before, and its corner Points belong to it alone: no  *)
(* other Rect holds them.                                                  *)
(***************************************************************************)
Origin == Point(PyInt(0), PyInt(0))

\* C5: the Rect just returned by Rect() has both corners at (0,0) and shares
\* no corner object with another Rect.
C5_DefaultRectAtOrigin ==
    (ret.op = "Rect" /\ ret.args = <<NoArg, NoArg>>) =>
        LET r == rects[ret.val] IN
        /\ Point__eq__(points[r.min], Origin)
        /\ Point__eq__(points[r.max], Origin)
        /\ \A o \in RectIds \ {ret.val} :
              {rects[o].min, rects[o].max} \cap {r.min, r.max} = {}

(***************************************************************************)
(* C6.  str(r) and repr(r) succeed for every Rect and are built from       *)
(* left = min.x, top = min.y, right = max.x, bottom = max.y.               *)
(***************************************************************************)
\* C6: str(r) and repr(r) return the text built from the four sides.
C6_StrSucceeds ==
    ret.op \in {"str", "repr"} =>
        /\ ret.exc = "none"
        /\ ret.val = <<points[rects[ret.args[1]].min].x, points[rects[ret.args[1]].min].y,
                       points[rects[ret.args[1]].max].x, points[rects[ret.args[1]].max].y>>

(***************************************************************************)
(* Point arithmetic.  The caller holds two Points, p and q (objects 1 and  *)
(* 2), drawn from the inputs, and evaluates one expression at a time.  The *)
(* Point an expression returns is a new object (3); the result of the      *)
(* previous expression is no longer referenced and has been freed.         *)
(***************************************************************************)
\* The numbers -MaxCoord .. MaxCoord on the grid, as ints and as floats.
IntNums == {PyInt(n) : n \in -MaxCoord .. MaxCoord}

FloatNums == {PyFloat(k) : k \in -(MaxCoord * Den) .. MaxCoord * Den}

Nums == IntNums \cup FloatNums

\* Scalars passed to __mul__.
Scalars == {PyInt(2), PyInt(-1)}

Operands == {1, 2}

ResultId == Cardinality(Operands) + 1

\* The heap with the caller's two Points and the newly returned object.
WithResult(v) == <<points[1], points[2], v>>

\* The heap with the caller's two Points only.
NoResult == <<points[1], points[2]>>

InitPoint ==
    /\ \E px \in Nums, py \in Nums, qx \in IntNums, qy \in IntNums :
          points = <<Point(px, py), Point(qx, qy)>>
    /\ rects = <<>>
    /\ ret = Returned("import", <<>>, 0)
    /\ gen = NoGen
    /\ yielded = <<>>

\* What a + b would do were __add__ written as the in-place add: move self
\* and return it.
Call__add__InPlace(a, b) ==
    /\ points' = [NoResult EXCEPT ![a] = Point__add__(points[a], points[b])]
    /\ ret' = Returned("__add__", <<a, b>>, a)
    /\ UNCHANGED <<rects, gen, yielded>>

\* a + b
Call__add__(a, b) ==
    /\ points' = WithResult(Point__add__(points[a], points[b]))
    /\ ret' = Returned("__add__", <<a, b>>, ResultId)
    /\ UNCHANGED <<rects, gen, yielded>>

\* a - b
Call__sub__(a, b) ==
    /\ points' = WithResult(Point__sub__(points[a], points[b]))
    /\ ret' = Returned("__sub__", <<a, b>>, ResultId)
    /\ UNCHANGED <<rects, gen, yielded>>

\* a * n
Call__mul__(a, n) ==
    /\ points' = WithResult(Point__mul__(points[a], n))
    /\ ret' = Returned("__mul__", <<a, n>>, ResultId)
    /\ UNCHANGED <<rects, gen, yielded>>

\* a == b
Call__eq__(a, b) ==
    /\ points' = NoResult
    /\ ret' = Returned("__eq__", <<a, b>>, Point__eq__(points[a], points[b]))
    /\ UNCHANGED <<rects, gen, yielded>>

\* a.clone()
Call_clone(a) ==
    /\ points' = WithResult(clone(points[a]))
    /\ ret' = Returned("clone", <<a>>, ResultId)
    /\ UNCHANGED <<rects, gen, yielded>>

\* (a + b) - b == a: two temporaries, freed once the comparison is made.
RoundTrip(a, b) ==
    /\ points' = NoResult
    /\ ret' = Returned("roundtrip", <<a, b>>,
                       Point__eq__(Point__sub__(Point__add__(points[a], points[b]),
                                                points[b]),
                                   points[a]))
    /\ UNCHANGED <<rects, gen, yielded>>

\* Angles are whole numbers of quarter turns, rad = q * pi/2, and math.sin
\* and math.cos are taken at their exact values -1.0, 0.0, 1.0 (for q # 0
\* the library returns a float within one rounding of them).
QuarterTurns == 0 .. 3

math_sin(q) == PyFloat(Den * (CASE q % 4 = 1 -> 1 [] q % 4 = 3 -> -1 [] OTHER -> 0))

math_cos(q) == PyFloat(Den * (CASE q % 4 = 0 -> 1 [] q % 4 = 2 -> -1 [] OTHER -> 0))

\* s, c = sin(rad), cos(rad); Point(c*x - s*y, s*x + c*y)
rotate(self, rad) ==
    LET s == math_sin(rad)
        c == math_cos(rad)
    IN  Point(NumSub(NumMul(c, self.x), NumMul(s, self.y)),
              NumAdd(NumMul(s, self.x), NumMul(c, self.y)))

\* a.rotate(rad)
Call_rotate(a, rad) ==
    /\ points' = WithResult(rotate(points[a], rad))
    /\ ret' = Returned("rotate", <<a, rad>>, ResultId)
    /\ UNCHANGED <<rects, gen, yielded>>

\* The attributes an instance of Point has.  No `slide` is defined.
PointAttrs == {"x", "y", "length", "distance_to", "as_tuple", "clone",
               "integerize", "floatize", "set", "add", "rotate", "rotate_about"}

\* a.rotate_about(p, theta): result = self.clone(); result.slide(-p.x, -p.y)
\* raises AttributeError, and the clone is dropped with the frame.
rotate_about(a, p, theta) ==
    /\ "slide" \notin PointAttrs
    /\ points' = NoResult
    /\ ret' = Raised("rotate_about", <<a, p, theta>>, "AttributeError")
    /\ UNCHANGED <<rects, gen, yielded>>

PAdd == \E a \in Operands, b \in Operands : Call__add__(a, b)

PSub == \E a \in Operands, b \in Operands : Call__sub__(a, b)

PMul == \E a \in Operands, n \in Scalars : Call__mul__(a, n)

PEq == \E a \in Operands, b \in Operands : Call__eq__(a, b)

PClone == \E a \in Operands : Call_clone(a)

PRoundTrip == \E a \in Operands, b \in Operands : RoundTrip(a, b)

PRotate == \E a \in Operands, rad \in QuarterTurns : Call_rotate(a, rad)

PRotateAbout ==
    \E a \in Operands, p \in Operands, theta \in QuarterTurns : rotate_about(a, p, theta)

NextPoint ==
    \/ PAdd
    \/ PSub
    \/ PMul
    \/ PEq
    \/ PClone
    \/ PRoundTrip
    \/ PRotate
    \/ PRotateAbout

SpecPoint == InitPoint /\ [][NextPoint]_vars

(***************************************************************************)
(* C7.  q.rotate_about(p, theta) completes without error, leaves q and p   *)
(* unchanged and returns a new Point: q translated by -p, rotated          *)
(* counter-clockwise by theta about the origin, translated back by +p.     *)
(* With theta = 0 the result equals q; with a half turn it is              *)
(* (2*p.x - q.x, 2*p.y - q.y).                                             *)
(***************************************************************************)
RotatedAbout(q, p, theta) == Point__add__(rotate(Point__sub__(q, p), theta), p)

\* C7: every call of rotate_about returns, without an exception, a new Point
\* at the rotated position and leaves q and p as they were.
C7_RotateAboutReturns ==
    [][ret'.op = "rotate_about" =>
          LET q == points[ret'.args[1]]
              p == points[ret'.args[2]]
              theta == ret'.args[3]
          IN  /\ ret'.exc = "none"
              /\ ret'.val \in DOMAIN points' \ {ret'.args[1], ret'.args[2]}
              /\ points'[ret'.args[1]] = q
              /\ points'[ret'.args[2]] = p
              /\ Point__eq__(points'[ret'.val], RotatedAbout(q, p, theta))
              /\ theta = 0 => Point__eq__(points'[ret'.val], q)
              /\ theta = 2 =>
                   /\ points'[ret'.val].x.k = 2 * p.x.k - q.x.k
                   /\ points'[ret'.val].y.k = 2 * p.y.k - q.y.k]_vars

(***************************************************************************)
(* C8.  For integer-coordinate Points p and q, (p + q) - q == p; and +, -  *)
(* and * return a new Point, the elementwise sum, difference or product,   *)
(* and leave the coordinates of their operands as they were.               *)
(***************************************************************************)
IntegerCoordinates(p) == IsIntValued(p.x) /\ IsIntValued(p.y)

\* C8: (a + b) - b == a is True on integer coordinates; +, - and * return a
\* new object holding the elementwise result and keep their operands.
C8_RoundTripAndOperandsKept ==
    [][/\ (/\ ret'.op = "roundtrip"
           /\ IntegerCoordinates(points[ret'.args[1]])
           /\ IntegerCoordinates(points[ret'.args[2]]))
          => (ret'.val = TRUE /\ \A o \in Operands : points'[o] = points[o])
       /\ ret'.op \in {"__add__", "__sub__", "__mul__"} =>
            LET a == ret'.args[1]
                b == ret'.args[2]
                res == points'[ret'.val]
            IN  /\ ret'.val \notin Operands
                /\ \A o \in Operands : points'[o] = points[o]
                /\ ret'.op = "__add__" =>
                     /\ res.x.k = points[a].x.k + points[b].x.k
                     /\ res.y.k = points[a].y.k + points[b].y.k
                /\ ret'.op = "__sub__" =>
                     /\ res.x.k = points[a].x.k - points[b].x.k
                     /\ res.y.k = points[a].y.k - points[b].y.k
                /\ ret'.op = "__mul__" =>
                     /\ res.x.k * Den = points[a].x.k * b.k
                     /\ res.y.k * Den = points[a].y.k * b.k]_vars

\* The round trip has been evaluated on integer Points with q # (0, 0).
C8_Witness ==
    /\ ret.op = "roundtrip"
    /\ ret.args = <<1, 2>>
    /\ IntegerCoordinates(points[1])
    /\ IntegerCoordinates(points[2])
    /\ points[2].x.k # 0
    /\ points[2].y.k # 0
    /\ points[1].x.k # points[1].y.k
    /\ ret.val = TRUE

(***************************************************************************)
(* Containment, overlap and equality of rectangles.  The caller holds two  *)
(* Rects, 1 = Rect(points 1, 2) and 2 = Rect(points 3, 4), whose corners   *)
(* are drawn from the inputs with no order imposed on min and max.         *)
(***************************************************************************)
\* What contains would do with the upper bounds exclusive.
containsHalfOpen(self, p) ==
    /\ NumLe(points[self.min].x, p.x) /\ NumLt(p.x, points[self.max].x)
    /\ NumLe(points[self.min].y, p.y) /\ NumLt(p.y, points[self.max].y)

\* self.min.x <= p.x <= self.max.x and self.min.y <= p.y <= self.max.y
contains(self, p) ==
    /\ NumLe(points[self.min].x, p.x) /\ NumLe(p.x, points[self.max].x)
    /\ NumLe(points[self.min].y, p.y) /\ NumLe(p.y, points[self.max].y)

\* p in r
Rect__contains__(self, p) == contains(self, p)

\* What overlaps would do with the comparisons on x not strict.
overlapsTouching(self, other) ==
    /\ points[self.max].x.k >= points[other.min].x.k
    /\ points[self.min].x.k <= points[other.max].x.k
    /\ NumLt(points[self.min].y, points[other.max].y)
    /\ NumGt(points[self.max].y, points[other.min].y)

overlaps(self, other) ==
    /\ NumGt(points[self.max].x, points[other.min].x)
    /\ NumLt(points[self.min].x, points[other.max].x)
    /\ NumLt(points[self.min].y, points[other.max].y)
    /\ NumGt(points[self.max].y, points[other.min].y)

Rect__eq__(self, other) ==
    /\ Point__eq__(points[self.min], points[other.min])
    /\ Point__eq__(points[self.max], points[other.max])

QueryNums == {PyInt(n) : n \in 0 .. MaxQuery}

InitQuery ==
    /\ \E ax \in QueryNums, ay \in QueryNums, bx \in QueryNums, by \in QueryNums,
          cx \in QueryNums, cy \in QueryNums, dx \in QueryNums, dy \in QueryNums :
          points = <<Point(ax, ay), Point(bx, by), Point(cx, cy), Point(dx, dy)>>
    /\ rects = <<RectOf(1, 2), RectOf(3, 4)>>
    /\ ret = Returned("import", <<>>, 0)
    /\ gen = NoGen
    /\ yielded = <<>>

\* r.contains(p)
Call_contains(r, p) ==
    /\ ret' = Returned("contains", <<r, p>>, contains(rects[r], points[p]))
    /\ UNCHANGED <<points, rects, gen, yielded>>

\* p in r
Call__contains__(r, p) ==
    /\ ret' = Returned("__contains__", <<r, p>>, Rect__contains__(rects[r], points[p]))
    /\ UNCHANGED <<points, rects, gen, yielded>>

\* r.overlaps(o)
Call_overlaps(r, o) ==
    /\ ret' = Returned("overlaps", <<r, o>>, overlaps(rects[r], rects[o]))
    /\ UNCHANGED <<points, rects, gen, yielded>>

\* r == o
CallRect__eq__(r, o) ==
    /\ ret' = Returned("Rect__eq__", <<r, o>>, Rect__eq__(rects[r], rects[o]))
    /\ UNCHANGED <<points, rects, gen, yielded>>

QContains == \E r \in RectIds, p \in PointIds : Call_contains(r, p)

QIn == \E r \in RectIds, p \in PointIds : Call__contains__(r, p)

QOverlaps == \E r \in RectIds, o \in RectIds : Call_overlaps(r, o)

QEq == \E r \in RectIds, o \in RectIds : CallRect__eq__(r, o)

NextQuery ==
    \/ QContains
    \/ QIn
    \/ QOverlaps
    \/ QEq

SpecQuery == InitQuery /\ [][NextQuery]_vars

\* The corners of Rect r, as values.
Lo(r) == points[rects[r].min]

Hi(r) == points[rects[r].max]

\* min <= max componentwise; min < max componentwise (a non-empty interior).
Ordered(r) == Lo(r).x.k <= Hi(r).x.k /\ Lo(r).y.k <= Hi(r).y.k

HasInterior(r) == Lo(r).x.k < Hi(r).x.k /\ Lo(r).y.k < Hi(r).y.k

(***************************************************************************)
(* C1.  r.contains(p) and `p in r` are true iff min.x <= p.x <= max.x and  *)
(* min.y <= p.y <= max.y: the four boundaries are inclusive.  Both corners *)
(* of a rectangle with min <= max are contained; a point one unit outside  *)
(* a side is not.                                                          *)
(***************************************************************************)
\* C1: the value returned by contains and by `in` is the inclusive test.
C1_ContainsInclusive ==
    ret.op \in {"contains", "__contains__"} =>
        LET r == ret.args[1]
            p == points[ret.args[2]]
        IN  /\ ret.val = (/\ Lo(r).x.k <= p.x.k /\ p.x.k <= Hi(r).x.k
                          /\ Lo(r).y.k <= p.y.k /\ p.y.k <= Hi(r).y.k)
            /\ (Ordered(r) /\ (p = Lo(r) \/ p = Hi(r))) => ret.val = TRUE
            /\ (\/ p.x.k = Hi(r).x.k + Den \/ p.x.k = Lo(r).x.k - Den
                \/ p.y.k = Hi(r).y.k + Den \/ p.y.k = Lo(r).y.k - Den) => ret.val = FALSE

\* The max corner of a rectangle with a non-empty interior is contained.
C1_Witness ==
    /\ ret.op = "contains"
    /\ HasInterior(ret.args[1])
    /\ points[ret.args[2]] = Hi(ret.args[1])
    /\ ret.val = TRUE

(***************************************************************************)
(* C2.  For rectangles A and B with min <= max, A.overlaps(B) is true      *)
(* exactly when their open interiors intersect; two rectangles that share  *)
(* only an edge or only a corner do not overlap, although the shared       *)
(* boundary points are contained by both.                                  *)
(***************************************************************************)
\* Some point lies strictly inside both rectangles.  Corners lie on the grid
\* of step 1/Den, so a common interior point, if there is one, can be taken
\* on the grid of step 1/(2*Den): u, v are in those units.
InteriorsIntersect(a, b) ==
    \E u \in 0 .. 2 * MaxQuery * Den, v \in 0 .. 2 * MaxQuery * Den :
        /\ 2 * Lo(a).x.k < u /\ u < 2 * Hi(a).x.k
        /\ 2 * Lo(b).x.k < u /\ u < 2 * Hi(b).x.k
        /\ 2 * Lo(a).y.k < v /\ v < 2 * Hi(a).y.k
        /\ 2 * Lo(b).y.k < v /\ v < 2 * Hi(b).y.k

Max(m, n) == IF m >= n THEN m ELSE n

Min(m, n) == IF m <= n THEN m ELSE n

\* The closed rectangles meet, and only along a side of one of them.
ShareOnlyBoundary(a, b) ==
    /\ Max(Lo(a).x.k, Lo(b).x.k) <= Min(Hi(a).x.k, Hi(b).x.k)
    /\ Max(Lo(a).y.k, Lo(b).y.k) <= Min(Hi(a).y.k, Hi(b).y.k)
    /\ \/ Hi(a).x.k = Lo(b).x.k \/ Hi(b).x.k = Lo(a).x.k
       \/ Hi(a).y.k = Lo(b).y.k \/ Hi(b).y.k = Lo(a).y.k

\* A point the two closed rectangles share, when they meet.
SharedPoint(a, b) ==
    Point(Num(Max(Lo(a).x.k, Lo(b).x.k), FALSE), Num(Max(Lo(a).y.k, Lo(b).y.k), FALSE))

BoundaryRule(a, b) ==
    ShareOnlyBoundary(a, b) =>
        /\ ret.val = FALSE
        /\ contains(rects[a], SharedPoint(a, b))
        /\ contains(rects[b], SharedPoint(a, b))

\* C2 as stated: overlaps returns whether the open interiors intersect.
C2_OverlapsIffInteriorsIntersect ==
    (ret.op = "overlaps" /\ Ordered(ret.args[1]) /\ Ordered(ret.args[2])) =>
        /\ ret.val = InteriorsIntersect(ret.args[1], ret.args[2])
        /\ BoundaryRule(ret.args[1], ret.args[2])

\* C2 as amended: the four strict comparisons decide; they agree with the
\* interiors intersecting when both rectangles have a non-empty interior.
C2_OverlapsStrict ==
    (ret.op = "overlaps" /\ Ordered(ret.args[1]) /\ Ordered(ret.args[2])) =>
        LET a == ret.args[1]
            b == ret.args[2]
        IN  /\ ret.val = (/\ Hi(a).x.k > Lo(b).x.k /\ Lo(a).x.k < Hi(b).x.k
                          /\ Lo(a).y.k < Hi(b).y.k /\ Hi(a).y.k > Lo(b).y.k)
            /\ (HasInterior(a) /\ HasInterior(b)) => ret.val = InteriorsIntersect(a, b)
            /\ BoundaryRule(a, b)

\* Two rectangles with non-empty interiors that share exactly one edge.
C2_Witness ==
    /\ ret.op = "overlaps"
    /\ ret.args = <<1, 2>>
    /\ HasInterior(1) /\ HasInterior(2)
    /\ Hi(1).x.k = Lo(2).x.k
    /\ Lo(1).y.k = Lo(2).y.k /\ Hi(1).y.k = Hi(2).y.k
    /\ ret.val = FALSE

(***************************************************************************)
(* Rectangles derived from a rectangle.  The caller holds Rect 1, whose    *)
(* corners are the Points 1 and 2 or the Point 1 twice (Rect(p, p)), and   *)
(* calls expanded_by or shift_by on it.  The Rect returned is a new object *)
(* (2) and so are the Points built for it (3 and 4); the result of the     *)
(* previous call is no longer referenced and has been freed.               *)
(***************************************************************************)
Receiver == 1

\* Amounts passed to expanded_by, displacements passed to shift_by.
Amounts == {PyInt(1), PyInt(-1), PyFloat(1)}

Shifts == {<<PyInt(1), PyInt(-1)>>, <<PyFloat(-1), PyInt(0)>>, <<PyInt(0), PyInt(2)>>}

\* The heaps with the caller's objects and a new Rect on the new Points p1, p2.
PointsWithNew(p1, p2) == <<points[1], points[2], p1, p2>>

RectsWithNew == <<rects[Receiver], RectOf(3, 4)>>

InitRectOps ==
    /\ \E ax \in Nums, ay \in Nums, bx \in Nums, by \in Nums :
          points = <<Point(ax, ay), Point(bx, by)>>
    /\ rects \in {<<RectOf(1, 2)>>, <<RectOf(1, 1)>>}
    /\ ret = Returned("import", <<>>, 0)
    /\ gen = NoGen
    /\ yielded = <<>>

\* What expanded_by would do were it to move its own corners with add and
\* hand them to the new Rect.
expanded_byInPlace(r, n) ==
    /\ points' = [[<<points[1], points[2]>> EXCEPT
                     ![rects[r].min] = Point(NumSub(@.x, n), NumSub(@.y, n))] EXCEPT
                     ![rects[r].max] = Point(NumAdd(@.x, n), NumAdd(@.y, n))]
    /\ rects' = <<rects[Receiver], RectOf(rects[r].min, rects[r].max)>>
    /\ ret' = Returned("expanded_by", <<r, n>>, 2)
    /\ UNCHANGED <<gen, yielded>>

expanded_by(r, n) ==
    /\ points' = PointsWithNew(
                    Point(NumSub(points[rects[r].min].x, n), NumSub(points[rects[r].min].y, n)),
                    Point(NumAdd(points[rects[r].max].x, n), NumAdd(points[rects[r].max].y, n)))
    /\ rects' = RectsWithNew
    /\ ret' = Returned("expanded_by", <<r, n>>, 2)
    /\ UNCHANGED <<gen, yielded>>

shift_by(r, dx, dy) ==
    /\ points' = PointsWithNew(
                    Point(NumAdd(points[rects[r].min].x, dx), NumAdd(points[rects[r].min].y, dy)),
                    Point(NumAdd(points[rects[r].max].x, dx), NumAdd(points[rects[r].max].y, dy)))
    /\ rects' = RectsWithNew
    /\ ret' = Returned("shift_by", <<r, dx, dy>>, 2)
    /\ UNCHANGED <<gen, yielded>>

ExpandedBy == \E n \in Amounts : expanded_by(Receiver, n)

ShiftBy == \E d \in Shifts : shift_by(Receiver, d[1], d[2])

NextRectOps ==
    \/ ExpandedBy
    \/ ShiftBy

SpecRectOps == InitRectOps /\ [][NextRectOps]_vars

(***************************************************************************)
(* C4.  expanded_by(n) and shift_by(dx, dy) leave the receiver as it was:  *)
(* the same corner objects with the same coordinates.  The Rect returned   *)
(* has the corners (min - (n,n), max + (n,n)), respectively                *)
(* (min + (dx,dy), max + (dx,dy)), held in Points that are new objects:    *)
(* neither is a corner of the receiver, and they are two objects.          *)
(***************************************************************************)
\* C4: a call of expanded_by or shift_by keeps the receiver and returns a Rect
\* on two new Points with the shifted coordinates.
C4_DerivedRectIsFresh ==
    [][ret'.op \in {"expanded_by", "shift_by"} =>
          LET r == ret'.args[1]
              lo == points[rects[r].min]
              hi == points[rects[r].max]
              res == rects'[ret'.val]
              rlo == points'[res.min]
              rhi == points'[res.max]
          IN  /\ rects'[r] = rects[r]
              /\ points'[rects[r].min] = lo
              /\ points'[rects[r].max] = hi
              /\ ret'.val # r
              /\ {res.min, res.max} \cap {rects[r].min, rects[r].max} = {}
              /\ res.min # res.max
              /\ ret'.op = "expanded_by" =>
                   LET n == ret'.args[2]
                   IN  /\ rlo.x.k = lo.x.k - n.k /\ rlo.y.k = lo.y.k - n.k
                       /\ rhi.x.k = hi.x.k + n.k /\ rhi.y.k = hi.y.k + n.k
              /\ ret'.op = "shift_by" =>
                   LET dx == ret'.args[2]
                       dy == ret'.args[3]
                   IN  /\ rlo.x.k = lo.x.k + dx.k /\ rlo.y.k = lo.y.k + dy.k
                       /\ rhi.x.k = hi.x.k + dx.k /\ rhi.y.k = hi.y.k + dy.k]_vars

\* Rect((0,0),(1,1)).expanded_by(1) has returned Rect((-1,-1),(2,2)).
C4_Witness ==
    /\ ret.op = "expanded_by"
    /\ ret.args[2] = PyInt(1)
    /\ rects[Receiver] = RectOf(1, 2)
    /\ points[1] = Point(PyInt(0), PyInt(0))
    /\ points[2] = Point(PyInt(1), PyInt(1))
    /\ points[rects[ret.val].min] = Point(PyInt(-1), PyInt(-1))
    /\ points[rects[ret.val].max] = Point(PyInt(2), PyInt(2))

(***************************************************************************)
(* Iteration.  Rect.__iter__ is a generator function: iter(r) makes a      *)
(* generator that has run nothing yet, and each next() runs the body to    *)
(* the next yield or to its end.  range(...) is evaluated when its `for`   *)
(* is entered: the rows once, on the first next(), the columns each time   *)
(* a row begins.  `yielded` is what the consumer (a for loop, list(r))     *)
(* has received from the current generator.                                *)
(***************************************************************************)
\* A Python int as an integer.
AsInteger(a) == a.k \div Den

\* The ranges without the +1: the last row, the last column left out.
RowRangeExclusive(r) == [start |-> AsInteger(int(points[rects[r].min].y)),
                         stop |-> AsInteger(int(points[rects[r].max].y))]

ColumnRangeExclusive(r) == [start |-> AsInteger(int(points[rects[r].min].x)),
                            stop |-> AsInteger(int(points[rects[r].max].x))]

\* range(int(self.min.y), int(self.max.y)+1)
RowRange(r) == [start |-> AsInteger(int(points[rects[r].min].y)),
                stop |-> AsInteger(int(points[rects[r].max].y)) + 1]

\* range(int(self.min.x), int(self.max.x)+1)
ColumnRange(r) == [start |-> AsInteger(int(points[rects[r].min].x)),
                   stop |-> AsInteger(int(points[rects[r].max].x)) + 1]

Exhausted(g) == [NoGen EXCEPT !.state = "done", !.r = g.r]

\* The generator after next(): suspended at a yield with the loop variables
\* x and y, or exhausted.  A row whose column range is empty yields nothing;
\* the Rect does not change during one next(), so then every remaining row
\* is empty too and the body runs to its end.
Resume(g) ==
    IF g.state = "created"
    THEN LET rows == RowRange(g.r)
             cols == ColumnRange(g.r)
         IN  IF rows.start < rows.stop /\ cols.start < cols.stop
             THEN [state |-> "suspended", r |-> g.r,
                   y |-> rows.start, ystop |-> rows.stop,
                   x |-> cols.start, xstop |-> cols.stop]
             ELSE Exhausted(g)
    ELSE IF g.x + 1 < g.xstop
         THEN [g EXCEPT !.x = g.x + 1]
         ELSE IF g.y + 1 < g.ystop
              THEN LET cols == ColumnRange(g.r)
                   IN  IF cols.start < cols.stop
                       THEN [g EXCEPT !.y = g.y + 1, !.x = cols.start, !.xstop = cols.stop]
                       ELSE Exhausted(g)
              ELSE Exhausted(g)

\* The float grid points -MaxCoord .. MaxCoord: an int where the value is
\* whole, a float elsewhere.
GridNums == {Num(k, k % Den # 0) : k \in -(MaxCoord * Den) .. MaxCoord * Den}

InitIter ==
    /\ \E ax \in GridNums, ay \in GridNums, bx \in GridNums, by \in GridNums :
          points = <<Point(ax, ay), Point(bx, by)>>
    /\ rects = <<RectOf(1, 2)>>
    /\ ret = Returned("import", <<>>, 0)
    /\ gen = NoGen
    /\ yielded = <<>>

\* iter(r), as done by `for p in r` and list(r); a generator left before
\* its end is dropped.
Rect__iter__(r) ==
    /\ gen' = [NoGen EXCEPT !.state = "created", !.r = r]
    /\ yielded' = <<>>
    /\ ret' = Returned("__iter__", <<r>>, 0)
    /\ UNCHANGED <<points, rects>>

\* next(gen): yield Point(x, y), or StopIteration.
next ==
    /\ gen.state \in {"created", "suspended"}
    /\ gen' = Resume(gen)
    /\ IF gen'.state = "suspended"
       THEN /\ yielded' = Append(yielded, Point(PyInt(gen'.x), PyInt(gen'.y)))
            /\ ret' = Returned("next", <<>>, Point(PyInt(gen'.x), PyInt(gen'.y)))
       ELSE /\ yielded' = yielded
            /\ ret' = Raised("next", <<>>, "StopIteration")
    /\ UNCHANGED <<points, rects>>

Iter == \E r \in RectIds : Rect__iter__(r)

NextIter ==
    \/ Iter
    \/ next

SpecIter == InitIter /\ [][NextIter]_vars

\* The corners of Rect r are whole numbers.
IntegerCorners(r) == IntegerCoordinates(Lo(r)) /\ IntegerCoordinates(Hi(r))

\* Integer points around the inputs' range.
GridPoints ==
    {Point(PyInt(x), PyInt(y)) : x \in -(MaxCoord + 1) .. MaxCoord + 1,
                                 y \in -(MaxCoord + 1) .. MaxCoord + 1}

Elements(seq) == {seq[i] : i \in DOMAIN seq}

IsPrefix(s, t) == Len(s) <= Len(t) /\ \A i \in DOMAIN s : s[i] = t[i]

(***************************************************************************)
(* C3.  Iterating a Rect with integer corners yields its points in         *)
(* row-major order, y from min.y to max.y and, within a row, x from min.x  *)
(* to max.x, both inclusive and ascending.  The iteration is finite, does  *)
(* not change the Rect, and gives the same sequence whenever it is run on  *)
(* the unchanged Rect.                                                     *)
(***************************************************************************)
\* The sequence the claim describes, for a Rect with integer corners.
RowMajor(r) ==
    LET x0 == Lo(r).x.k \div Den
        y0 == Lo(r).y.k \div Den
        w == (Hi(r).x.k \div Den) - x0 + 1
        h == (Hi(r).y.k \div Den) - y0 + 1
    IN  IF w <= 0 \/ h <= 0
        THEN <<>>
        ELSE [i \in 1 .. w * h |->
                Point(PyInt(x0 + ((i - 1) % w)), PyInt(y0 + ((i - 1) \div w)))]

\* C3: each next() on a Rect with integer corners yields the next point of
\* the row-major sequence or ends the iteration once all were yielded, and
\* leaves the Rect as it was.
\* Finite: every next() either ends the iteration or extends `yielded`, which
\* stays a prefix of the finite sequence RowMajor; next() never blocks.
C3_RowMajorIteration ==
       [][IF ret'.op = "next" /\ IntegerCorners(gen.r)
          THEN /\ points' = points
               /\ rects' = rects
               /\ IsPrefix(yielded', RowMajor(gen.r))
               /\ IF ret'.exc = "none"
                  THEN /\ Len(yielded') = Len(yielded) + 1
                       /\ yielded'[Len(yielded')] = ret'.val
                  ELSE /\ ret'.exc = "StopIteration"
                       /\ yielded' = RowMajor(gen.r)
                       /\ gen'.state = "done"
          ELSE TRUE]_vars

\* A rectangle three points wide and at least two high has been iterated to
\* its end.
C3_Witness ==
    /\ gen.state = "done"
    /\ IntegerCorners(gen.r)
    /\ Hi(gen.r).x.k - Lo(gen.r).x.k = 2 * Den
    /\ Hi(gen.r).y.k - Lo(gen.r).y.k >= Den
    /\ Len(yielded) >= 6
    /\ yielded[4] = Point(Lo(gen.r).x, PyInt((Lo(gen.r).y.k \div Den) + 1))

(***************************************************************************)
(* C9.  Whatever the corners, integer or not, negative or not, iteration   *)
(* produces exactly the integer points (x, y) with                         *)
(* floor(min.x) <= x <= floor(max.x) and floor(min.y) <= y <= floor(max.y).*)
(***************************************************************************)
\* floor(k/Den) and k/Den truncated toward zero, as integers.
Floor(k) ==
    CHOOSE t \in -(MaxCoord + 1) .. MaxCoord + 1 : t * Den <= k /\ k < (t + 1) * Den

Truncated(k) ==
    CHOOSE t \in -(MaxCoord + 1) .. MaxCoord + 1 :
        IF k >= 0 THEN t * Den <= k /\ k < (t + 1) * Den
                  ELSE (t - 1) * Den < k /\ k <= t * Den

\* C9 as stated, on the rectangles with min <= max: the points yielded are
\* those between the floors of the corners.
C9_IterationFloors ==
    (gen.state = "done" /\ Ordered(gen.r)) =>
        Elements(yielded) =
            {p \in GridPoints :
                /\ Floor(Lo(gen.r).x.k) * Den <= p.x.k /\ p.x.k <= Floor(Hi(gen.r).x.k) * Den
                /\ Floor(Lo(gen.r).y.k) * Den <= p.y.k /\ p.y.k <= Floor(Hi(gen.r).y.k) * Den}

\* C9 as amended: the points yielded are those between the corners'
\* coordinates truncated toward zero.
C9_IterationTruncates ==
    gen.state = "done" =>
        Elements(yielded) =
            {p \in GridPoints :
                /\ Truncated(Lo(gen.r).x.k) * Den <= p.x.k
                /\ p.x.k <= Truncated(Hi(gen.r).x.k) * Den
                /\ Truncated(Lo(gen.r).y.k) * Den <= p.y.k
                /\ p.y.k <= Truncated(Hi(gen.r).y.k) * Den}

\* A rectangle with a negative, non-integer min.x has been iterated to its
\* end and has yielded points.
C9_Witness ==
    /\ gen.state = "done"
    /\ Lo(gen.r).x.k < 0
    /\ ~IsIntValued(Lo(gen.r).x)
    /\ ~IsIntValued(Hi(gen.r).y)
    /\ Len(yielded) >= 2

(***************************************************************************)
(* C10.  For a Rect with integer corners the points iteration yields are   *)
(* exactly the integer points the Rect contains, each yielded once: with   *)
(* min <= max there are (max.x-min.x+1)*(max.y-min.y+1) of them, and a     *)
(* Rect inverted on either axis yields none and contains none.             *)
(***************************************************************************)
\* C10: a finished iteration has yielded, once each, the integer points the
\* Rect contains.
C10_IterationMatchesContains ==
    (gen.state = "done" /\ IntegerCorners(gen.r)) =>
        LET inside == {p \in GridPoints : contains(rects[gen.r], p)}
        IN  /\ Elements(yielded) = inside
            /\ Len(yielded) = Cardinality(inside)
            /\ Ordered(gen.r) =>
                 Len(yielded) * Den * Den =
                    (Hi(gen.r).x.k - Lo(gen.r).x.k + Den) * (Hi(gen.r).y.k - Lo(gen.r).y.k + Den)
            /\ ~Ordered(gen.r) => (yielded = <<>> /\ inside = {})

\* A rectangle inverted on one axis only has been iterated to its end.
C10_Witness ==
    /\ gen.state = "done"
    /\ IntegerCorners(gen.r)
    /\ Lo(gen.r).x.k > Hi(gen.r).x.k
    /\ Lo(gen.r).y.k < Hi(gen.r).y.k
    /\ yielded = <<>>

====
